---- MODULE Spec2Model ----
(***************************************************************************)
(* Auroville events chatbot: the retrieval tool search_auroville_events    *)
(* (vectordb_filtering_agent.py), the agent pipeline that calls it         *)
(* (auroville_agent.py) and the streaming chat turn (app.py).              *)
(*                                                                         *)
(* A Python string is a sequence of tokens, each token a TLA+ string: a    *)
(* word, a maximal run of digits, one whitespace character, one comma, or  *)
(* one other character.  <<>> is the empty string and s \o t is s + t.     *)
(* An Optional[str] is a record [isNone, v].                               *)
(***************************************************************************)
EXTENDS Integers, Sequences, FiniteSets, TLC

VARIABLES
    now_year,       \* datetime.now().year
    selector_done,  \* vectordb_query_selector_agent has returned its QuerySelector
    user_text,      \* the utterance the selector agent was given
    selector_specificity, \* QuerySelector.specificity of its output
    tool_pc,        \* search_auroville_events: "idle", "invoked", "returned", "raised"
    tool_args,      \* the arguments of the call
    search_kwargs,  \* the keyword arguments handed to retriever.invoke
    docs,           \* what retriever.invoke returned
    tool_result,    \* the string the tool returned
    filtering_done, \* vectordb_filtering_agent has produced its formatted output
    retriever,      \* the process-wide handle of the index (module level)
    index_loads,    \* how many times create_or_load_db has run
    turn_pc,        \* streaming_chat, per turn: where the generator stands
    question,       \* per turn: the argument `question`
    history,        \* per turn: the argument `history`
    session_id,     \* per turn: the argument `session_id`
    stream_events,  \* per turn: the text deltas the run has delivered so far
    response_text,  \* per turn: the local response_text
    turn_error,     \* per turn: str(e) of the exception caught, if any
    turn_search,    \* per turn: the arguments and kwargs of its retrieval, if any
    last_yield,     \* per turn: <<>> or <<the last history yielded to the caller>>
    saved           \* per session: the save_message calls, each tagged with its turn

selectorVars == <<user_text, selector_specificity>>
pipelineVars == <<selector_done, selectorVars, tool_pc, tool_args, search_kwargs, docs,
                  tool_result, filtering_done>>
processVars == <<now_year, retriever, index_loads>>
chatVars == <<turn_pc, question, history, session_id, stream_events, response_text,
              turn_error, turn_search, last_yield, saved>>

\* ------------------------------------------------------------------ bounds
MaxDocs == 2
MaxDeltas == 2

\* ------------------------------------------------------- Python values
None == [isNone |-> TRUE, v |-> <<>>]
Some(s) == [isNone |-> FALSE, v |-> s]
\* truth value of an Optional[str]: None and "" are falsy
Truthy(o) == ~o.isNone /\ o.v # <<>>

\* ------------------------------------------------- datetime (Gregorian)
\* %B: the full month names, matched ignoring case
MonthNumber(w) ==
    CASE w \in {"January", "january", "JANUARY"} -> 1
      [] w \in {"February", "february", "FEBRUARY"} -> 2
      [] w \in {"March", "march", "MARCH"} -> 3
      [] w \in {"April", "april", "APRIL"} -> 4
      [] w \in {"May", "may", "MAY"} -> 5
      [] w \in {"June", "june", "JUNE"} -> 6
      [] w \in {"July", "july", "JULY"} -> 7
      [] w \in {"August", "august", "AUGUST"} -> 8
      [] w \in {"September", "september", "SEPTEMBER"} -> 9
      [] w \in {"October", "october", "OCTOBER"} -> 10
      [] w \in {"November", "november", "NOVEMBER"} -> 11
      [] w \in {"December", "december", "DECEMBER"} -> 12
      [] OTHER -> 0

\* the digit runs the inputs use: token -> <<int(token), len(token)>>
Numeral ==
    ("0" :> <<0, 1>>) @@ ("5" :> <<5, 1>>) @@ ("05" :> <<5, 2>>) @@
    ("29" :> <<29, 2>>) @@ ("30" :> <<30, 2>>) @@ ("31" :> <<31, 2>>) @@
    ("32" :> <<32, 2>>) @@ ("25" :> <<25, 2>>) @@
    ("0000" :> <<0, 4>>) @@ ("1900" :> <<1900, 4>>) @@ ("2000" :> <<2000, 4>>) @@
    ("2024" :> <<2024, 4>>) @@ ("2025" :> <<2025, 4>>) @@ ("2026" :> <<2026, 4>>) @@
    ("20255" :> <<20255, 5>>)

IsNumeral(t) == t \in DOMAIN Numeral
IntOf(t) == Numeral[t][1]
WidthOf(t) == Numeral[t][2]
IsWs(t) == t = " "

IsLeap(y) == y % 4 = 0 /\ (y % 100 # 0 \/ y % 400 = 0)

DaysInMonth(y, m) ==
    IF m = 2 THEN (IF IsLeap(y) THEN 29 ELSE 28)
    ELSE IF m \in {4, 6, 9, 11} THEN 30 ELSE 31

\* datetime._days_before_year
DaysBeforeYear(y) ==
    LET p == y - 1 IN p * 365 + (p \div 4) - (p \div 100) + (p \div 400)

RECURSIVE DaysBeforeMonth(_, _)
DaysBeforeMonth(y, m) ==
    IF m <= 1 THEN 0 ELSE DaysBeforeMonth(y, m - 1) + DaysInMonth(y, m - 1)

\* date.toordinal(): January 1 of year 1 is day 1
ToOrdinal(y, m, d) == DaysBeforeYear(y) + DaysBeforeMonth(y, m) + d

\* the weekday counted from Sunday instead of Monday
WeekdayOffByOne(y, m, d) == ToOrdinal(y, m, d) % 7
\* date.weekday(): Monday is 0
Weekday(y, m, d) == (ToOrdinal(y, m, d) + 6) % 7

\* strftime("%A")
DayName(i) ==
    <<"Monday", "Tuesday", "Wednesday", "Thursday", "Friday", "Saturday", "Sunday">>[i + 1]

RECURSIVE SkipWs(_, _)
SkipWs(s, i) == IF i <= Len(s) /\ IsWs(s[i]) THEN SkipWs(s, i + 1) ELSE i

\* %d: 3[0-1] | [1-2]\d | 0[1-9] | [1-9]
IsDayOfMonth(t) ==
    /\ IsNumeral(t)
    /\ \/ WidthOf(t) = 1 /\ IntOf(t) \in 1..9
       \/ WidthOf(t) = 2 /\ IntOf(t) \in 1..31

\* %Y: \d\d\d\d
IsYear(t) == IsNumeral(t) /\ WidthOf(t) = 4

ParseFailed == [ok |-> FALSE, year |-> 0, month |-> 0, day |-> 0]

\* datetime.strptime(s, "%B %d, %Y"): the whole of s must match
\* <month name> \s+ <day> , \s+ <year>, and the date must exist (the
\* year at least datetime.MINYEAR = 1, the day within the month);
\* [ok |-> FALSE] is ValueError.
Strptime(s) ==
    IF Len(s) < 6 \/ MonthNumber(s[1]) = 0 \/ ~IsWs(s[2]) THEN ParseFailed
    ELSE LET j == SkipWs(s, 2) IN
      IF j + 1 > Len(s) \/ ~IsDayOfMonth(s[j]) \/ s[j + 1] # "," THEN ParseFailed
      ELSE LET k == SkipWs(s, j + 2) IN
        IF k = j + 2 \/ k # Len(s) \/ ~IsYear(s[k]) THEN ParseFailed
        ELSE LET y == IntOf(s[k])
                 m == MonthNumber(s[1])
                 d == IntOf(s[j])
             IN IF y < 1 \/ d > DaysInMonth(y, m) THEN ParseFailed
                ELSE [ok |-> TRUE, year |-> y, month |-> m, day |-> d]

\* parsed_date.strftime("%A")
StrftimeA(p) == <<DayName(Weekday(p.year, p.month, p.day))>>

\* f", {datetime.now().year}"
YearSuffix(year) == <<",", " ", ToString(year)>>

\* ---------------------------------------------- search_auroville_events
RETRIEVER_K == 50
K_BROAD == 100
K_SPECIFIC == 20

\* str.lower(), character by character (specificity is spelled in characters)
LowerChar(c) ==
    CASE c = "B" -> "b" [] c = "R" -> "r" [] c = "O" -> "o" [] c = "A" -> "a"
      [] c = "D" -> "d" [] c = "S" -> "s" [] c = "P" -> "p" [] c = "E" -> "e"
      [] c = "C" -> "c" [] c = "I" -> "i" [] c = "F" -> "f"
      [] OTHER -> c

Lower(s) == [i \in 1..Len(s) |-> LowerChar(s[i])]

\* the comparison without lower(): only the spelling "Broad" is broad
KValueCaseSensitive(specificity) ==
    IF specificity = <<"B", "r", "o", "a", "d">> THEN K_BROAD ELSE K_SPECIFIC
\* k_value = 100 if specificity.lower() == "broad" else 20
KValue(specificity) ==
    IF Lower(specificity) = <<"b", "r", "o", "a", "d">> THEN K_BROAD ELSE K_SPECIFIC

\* a dict that keeps insertion order: a sequence of <<key, value>> pairs
RECURSIVE DictHas(_, _)
DictHas(d, k) == d # <<>> /\ (Head(d)[1] = k \/ DictHas(Tail(d), k))

\* d[k] = v: replaces the value of an existing key in place, else appends
DictSet(d, k, v) ==
    IF DictHas(d, k)
    THEN [i \in 1..Len(d) |-> IF d[i][1] = k THEN <<k, v>> ELSE d[i]]
    ELSE Append(d, <<k, v>>)

\* the derivation without the retry that appends the current year
DerivedDayNoRetry(filter_date, year) ==
    LET first == Strptime(filter_date)
    IN IF first.ok THEN Some(StrftimeA(first)) ELSE None

\* the weekday derived from filter_date, None when both parses raise ValueError
DerivedDay(filter_date, year) ==
    LET first == Strptime(filter_date)
        second == Strptime(filter_date \o YearSuffix(year))
    IN IF first.ok THEN Some(StrftimeA(first))
       ELSE IF second.ok THEN Some(StrftimeA(second))
       ELSE None

\* simple_filters with the derivation run after the explicit fields, so that the
\* derived weekday replaces a supplied filter_day
SimpleFiltersDerivedWins(filter_day, filter_date, filter_location, year) ==
    LET withDate == IF Truthy(filter_date) THEN <<<<"date", filter_date.v>>>> ELSE <<>>
        withDay == IF Truthy(filter_day) THEN DictSet(withDate, "day", filter_day.v)
                   ELSE withDate
        derived == IF Truthy(filter_date) THEN DerivedDay(filter_date.v, year) ELSE None
        withDerived == IF ~derived.isNone THEN DictSet(withDay, "day", derived.v)
                       ELSE withDay
    IN IF Truthy(filter_location) THEN DictSet(withDerived, "location", filter_location.v)
       ELSE withDerived

\* simple_filters from the explicit fields alone, no weekday derived
SimpleFiltersNoDerivation(filter_day, filter_date, filter_location, year) ==
    LET withDate == IF Truthy(filter_date) THEN <<<<"date", filter_date.v>>>> ELSE <<>>
        withDay == IF Truthy(filter_day) THEN DictSet(withDate, "day", filter_day.v)
                   ELSE withDate
    IN IF Truthy(filter_location) THEN DictSet(withDay, "location", filter_location.v)
       ELSE withDay

\* simple_filters: date, then the derived day, then the explicit day and location
SimpleFilters(filter_day, filter_date, filter_location, year) ==
    LET withDate == IF Truthy(filter_date) THEN <<<<"date", filter_date.v>>>> ELSE <<>>
        derived == IF Truthy(filter_date) THEN DerivedDay(filter_date.v, year) ELSE None
        withDerived == IF ~derived.isNone THEN DictSet(withDate, "day", derived.v)
                       ELSE withDate
        withDay == IF Truthy(filter_day) THEN DictSet(withDerived, "day", filter_day.v)
                   ELSE withDerived
    IN IF Truthy(filter_location) THEN DictSet(withDay, "location", filter_location.v)
       ELSE withDay

\* {key: {"$eq": value}}
Condition(key, value) == key :> ("$eq" :> value)

Conditions(simple_filters) ==
    [i \in 1..Len(simple_filters) |->
        Condition(simple_filters[i][1], simple_filters[i][2])]

EmptyDict == <<>>

\* the filter combining several conditions with "$and"
ChromaFilterAnd(simple_filters) ==
    IF Len(simple_filters) >= 1
    THEN IF Len(simple_filters) = 1
         THEN LET key == simple_filters[1][1]
              IN key :> Conditions(simple_filters)[1][key]
         ELSE "$and" :> Conditions(simple_filters)
    ELSE EmptyDict

\* chroma_filter: {} | {key: {"$eq": value}} | {"$or": conditions}
ChromaFilter(simple_filters) ==
    IF Len(simple_filters) >= 1
    THEN IF Len(simple_filters) = 1
         THEN LET key == simple_filters[1][1]
              IN key :> Conditions(simple_filters)[1][key]
         ELSE "$or" :> Conditions(simple_filters)
    ELSE EmptyDict

\* search_kwargs: "filter" is set only when chroma_filter is a non-empty dict
SearchKwargs(k_value, chroma_filter) ==
    IF DOMAIN chroma_filter # {}
    THEN ("k" :> k_value) @@ ("filter" :> chroma_filter)
    ELSE "k" :> k_value

\* doc.metadata.get(key, 'N/A')
MetadataGet(metadata, key) == IF key \in DOMAIN metadata THEN metadata[key] ELSE "N/A"

DocumentText(i, doc) ==
    <<"Document ", ToString(i), " (Day: ", MetadataGet(doc.metadata, "day"),
      " | Date: ", MetadataGet(doc.metadata, "date"),
      " | Location: ", MetadataGet(doc.metadata, "location"), "):\n",
      doc.page_content>>

\* "\n\n".join of the documents from the i-th on
RECURSIVE JoinDocuments(_, _)
JoinDocuments(hits, i) ==
    IF i > Len(hits) THEN <<>>
    ELSE IF i = Len(hits) THEN DocumentText(i, hits[i])
    ELSE DocumentText(i, hits[i]) \o <<"\n\n">> \o JoinDocuments(hits, i + 1)

NoResultsMessage ==
    <<"No relevant information found about Auroville events based on your query and filters.">>

ListingHeader == "Here is relevant information about Auroville events:\n\n"

\* the formatting without the `if not docs` branch
FormatResultNoEmptyCheck(hits) == <<ListingHeader>> \o JoinDocuments(hits, 1)
\* step 4 of the tool: the string it returns for the retrieved hits
FormatResult(hits) ==
    IF hits = <<>> THEN NoResultsMessage
    ELSE <<ListingHeader>> \o JoinDocuments(hits, 1)

\* --------------------------------------------------------------- inputs
CurrentYears == {2024, 2025}

SearchQueries == {<<"yoga", " ", "classes">>}

Specificities ==
    { <<"B", "r", "o", "a", "d">>, <<"b", "r", "o", "a", "d">>,
      <<"B", "R", "O", "A", "D">>, <<"b", "r", "o", "a", "d", " ">>,
      <<"S", "p", "e", "c", "i", "f", "i", "c">>, <<>> }

MonthWords == {"November", "february", "Nov"}
DayNumerals == {"5", "05", "29", "31", "0"}
YearNumerals == {"2025", "2024", "1900", "0000"}

FullDates ==
    { <<m, " ", d, ",", " ", y>> : m \in MonthWords, d \in DayNumerals, y \in YearNumerals }
PartialDates == { <<m, " ", d>> : m \in MonthWords, d \in DayNumerals }
OddDates ==
    { <<"NOVEMBER", " ", " ", "05", ",", " ", " ", "2000">>,
      <<"November", " ", "5", ",", "2025">>,
      <<"November", " ", "5", " ", ",", " ", "2025">>,
      <<"November", " ", "5", ",", " ", "2025", " ">>,
      <<" ", "November", " ", "5", ",", " ", "2025">>,
      <<"November", " ", "5", ",", " ", "20255">>,
      <<"November", " ", "5", ",", " ", "25">>,
      <<"November", " ", "32", ",", " ", "2025">>,
      <<"November", " ", "30", ",", " ", "2025">>,
      <<"2025", "-", "11", "-", "05">>,
      <<"tomorrow">> }

DateStrings == FullDates \cup PartialDates \cup OddDates

FilterDates == {None, Some(<<>>)} \cup { Some(s) : s \in DateStrings }
FilterDays == {None, Some(<<>>), Some(<<"Monday">>)}
FilterLocations == {None, Some(<<>>), Some(<<"Town", " ", "Hall">>)}

ToolArgs ==
    [search_query : SearchQueries, specificity : Specificities,
     filter_day : FilterDays, filter_date : FilterDates,
     filter_location : FilterLocations]

NoArgs ==
    [search_query |-> <<>>, specificity |-> <<>>, filter_day |-> None,
     filter_date |-> None, filter_location |-> None]

\* EventDocument: metadata (any of day, date, location) and page_content
Documents ==
    { [metadata |-> ("day" :> "Wednesday") @@ ("date" :> ""), page_content |-> "Yoga at Pitanga"],
      [metadata |-> ("location" :> "Town Hall"), page_content |-> "Film screening"] }

RECURSIVE SeqsUpTo(_, _)
SeqsUpTo(S, n) ==
    IF n = 0 THEN {<<>>}
    ELSE LET shorter == SeqsUpTo(S, n - 1)
         IN shorter \cup { Append(q, x) : q \in {r \in shorter : Len(r) = n - 1}, x \in S }

RetrieverResults == SeqsUpTo(Documents, MaxDocs)

\* ------------------------------------------------- the agent pipeline
\* module import: the index is loaded and the retriever built, once
InitProcess ==
    /\ now_year \in CurrentYears
    /\ index_loads = 1
    /\ retriever = [k |-> RETRIEVER_K]

InitPipeline ==
    /\ selector_done = FALSE
    /\ user_text = <<>>
    /\ selector_specificity = <<>>
    /\ tool_pc = "idle"
    /\ tool_args = NoArgs
    /\ search_kwargs = EmptyDict
    /\ docs = <<>>
    /\ tool_result = <<>>
    /\ filtering_done = FALSE

\* ------------------------------------- vectordb_query_selector_agent
\* an utterance is a sequence of lower-cased words; the selector's model is
\* bound only by its INSTRUCTIONS, so its classification is any the
\* INSTRUCTIONS assign to the utterance.

\* "event types (like yoga, music, dance, healing, sound, movie, talk, workshop, etc.)"
EventTypeKeywords ==
    {"yoga", "music", "dance", "healing", "sound", "movie", "talk", "workshop"}

\* the location the Specific examples name
LocationKeywords == {"cripa"}

HasWord(u, W) == \E i \in 1..Len(u) : u[i] \in W

\* the two rows of the classification table, by their Definition column, and the
\* vague-input rule: Specific with an event type or a location, Broad otherwise
SpecificityByDefinition(u) ==
    IF HasWord(u, EventTypeKeywords \cup LocationKeywords) THEN "Specific" ELSE "Broad"

\* the Examples column of the Broad row, and the vague input "events"
BroadExamples ==
    { <<"what's", "happening", "today">>, <<"events", "on", "wednesday">>,
      <<"list", "all", "events", "for", "nov", "5">>, <<"tomorrow">>,
      <<"events">> }

\* the Examples column of the Specific row
SpecificExamples ==
    { <<"yoga", "classes", "on", "tuesday">>, <<"sound", "healing", "sessions">>,
      <<"dance", "workshop", "on", "dec", "8">>, <<"what's", "happening", "at", "cripa">>,
      <<"events", "this", "weekend">> }

\* the classifications the INSTRUCTIONS give for u: by definition, and by the
\* example that u is
InstructedSpecificities(u) ==
    {SpecificityByDefinition(u)}
      \cup (IF u \in BroadExamples THEN {"Broad"} ELSE {})
      \cup (IF u \in SpecificExamples THEN {"Specific"} ELSE {})

\* the utterances the selector is explored with
UserTexts ==
    BroadExamples \cup SpecificExamples
      \cup { <<"this", "weekend">>, <<"today">>, <<"friday">>,
             <<"music", "tomorrow">>, <<"sound", "healing">> }

\* the selector agent answers the utterance u with specificity c
SelectorAnswers(u, c) ==
    /\ ~selector_done
    /\ selector_done' = TRUE
    /\ user_text' = u
    /\ selector_specificity' = <<c>>
    /\ UNCHANGED <<tool_pc, tool_args, search_kwargs, docs, tool_result,
                   filtering_done>>
    /\ UNCHANGED <<processVars, chatVars>>

\* the orchestrating model calls the vectordb_query_selector_agent tool
SelectorAgentRun ==
    /\ ~selector_done
    /\ \E u \in UserTexts : \E c \in InstructedSpecificities(u) : SelectorAnswers(u, c)

\* the filtering agent's model calls search_auroville_events(args): the tool
\* runs up to retriever.invoke(search_query, **search_kwargs)
SearchCall(args) ==
    /\ tool_pc = "idle"
    /\ tool_pc' = "invoked"
    /\ tool_args' = args
    /\ search_kwargs' =
          SearchKwargs(KValue(args.specificity),
                       ChromaFilter(SimpleFilters(args.filter_day, args.filter_date,
                                                  args.filter_location, now_year)))
    /\ UNCHANGED <<selector_done, selectorVars, docs, tool_result, filtering_done>>
    /\ UNCHANGED <<processVars, chatVars>>

\* a call with any arguments of the set A
SearchFrom(A) == tool_pc = "idle" /\ \E args \in A : SearchCall(args)

\* retriever.invoke returns d; the tool formats it and returns
RetrieverReturns(d) ==
    /\ tool_pc = "invoked"
    /\ tool_pc' = "returned"
    /\ docs' = d
    /\ tool_result' = FormatResult(d)
    /\ UNCHANGED <<selector_done, selectorVars, tool_args, search_kwargs, filtering_done>>
    /\ UNCHANGED <<processVars, chatVars>>

\* retriever.invoke returns any ranked list of documents
Retrieve == tool_pc = "invoked" /\ \E d \in RetrieverResults : RetrieverReturns(d)

\* retriever.invoke raises (index unreachable): the tool does not catch it
RetrieverRaises ==
    /\ tool_pc = "invoked"
    /\ tool_pc' = "raised"
    /\ UNCHANGED <<selector_done, selectorVars, tool_args, search_kwargs, docs,
                   tool_result, filtering_done>>
    /\ UNCHANGED <<processVars, chatVars>>

\* the filtering agent's model emits its final, formatted output
FilteringAgentOutput ==
    /\ ~filtering_done
    /\ filtering_done' = TRUE
    /\ UNCHANGED <<selector_done, selectorVars, tool_pc, tool_args, search_kwargs,
                   docs, tool_result>>
    /\ UNCHANGED <<processVars, chatVars>>

\* ------------------------------------------------------ streaming_chat
Turns == {1, 2}

Questions == {<<"yoga", " ", "today">>, <<"events">>}

Message(role, content) == [role |-> role, content |-> content]

Histories ==
    { <<>>,
      <<Message("user", <<"hi">>), Message("assistant", <<"Hello">>)>> }

ValidSessions == {<<"s1">>, <<"s2">>}
SessionIds == {None, Some(<<>>), Some(<<"null">>)} \cup { Some(v) : v \in ValidSessions }

\* data.delta of a ResponseTextDeltaEvent
Deltas == {<<>>, <<"Yoga">>}

\* str(e) of an exception raised out of the agent run
Failures == {<<"Connection", " ", "error.">>, <<"Invalid", " ", "JSON">>}

\* the retrievals a chat turn is explored with
ChatToolArgs ==
    { [search_query |-> <<"yoga", " ", "classes">>,
       specificity |-> <<"B", "r", "o", "a", "d">>,
       filter_day |-> None,
       filter_date |-> Some(<<"November", " ", "5", ",", " ", "2025">>),
       filter_location |-> None],
      [search_query |-> <<"yoga", " ", "classes">>,
       specificity |-> <<"S", "p", "e", "c", "i", "f", "i", "c">>,
       filter_day |-> Some(<<"Monday">>),
       filter_date |-> None,
       filter_location |-> None] }

NoSearch == [called |-> FALSE, args |-> NoArgs, kwargs |-> EmptyDict]

FallbackMessage ==
    <<"I apologize, but I couldn't generate a proper response. Please try again.">>

\* one fixed text for every exception
ErrorMessageGeneric(e) == FallbackMessage
\* f"I encountered an error: {str(e)}. Please try again."
ErrorMessage(e) == <<"I encountered an error: ">> \o e \o <<". Please try again.">>

\* the test without the comparison with "null"
InvalidSessionEmptyOnly(sid) == ~Truthy(sid)
\* `not session_id or session_id == "null"`
InvalidSession(sid) == ~Truthy(sid) \/ sid.v = <<"null">>

\* the longest response_text of any turn: what a module-level buffer would hold
SharedResponseText ==
    response_text[CHOOSE u \in Turns :
                    \A w \in Turns : Len(response_text[u]) >= Len(response_text[w])]

\* response_text kept in one module-level buffer
ResponseAfterDeltaShared(t, d) == SharedResponseText \o d
\* response_text += data.delta
ResponseAfterDelta(t, d) == response_text[t] \o d

\* history.copy() with the user's question and the assistant's content appended
UpdatedHistory(t, content) ==
    history[t] \o <<Message("user", question[t]), Message("assistant", content)>>

\* session_handler.save_message(session_id, role, content), called by turn t
SaveMessage(t, role, content) ==
    [saved EXCEPT ![session_id[t].v] =
        Append(@, [role |-> role, content |-> content, turn |-> t])]

\* a handler that saves whatever text had been streamed when cancelled
SavedAfterCancelPartial(t) ==
    IF response_text[t] # <<>> THEN SaveMessage(t, "assistant", response_text[t])
    ELSE saved
\* a cancellation is no Exception: no handler of streaming_chat runs and
\* nothing is saved
SavedAfterCancel(t) == saved

InitChat ==
    /\ turn_pc = [t \in Turns |-> "idle"]
    /\ question = [t \in Turns |-> <<>>]
    /\ history = [t \in Turns |-> <<>>]
    /\ session_id = [t \in Turns |-> None]
    /\ stream_events = [t \in Turns |-> <<>>]
    /\ response_text = [t \in Turns |-> <<>>]
    /\ turn_error = [t \in Turns |-> None]
    /\ turn_search = [t \in Turns |-> NoSearch]
    /\ last_yield = [t \in Turns |-> <<>>]
    /\ saved = [v \in ValidSessions |-> <<>>]

\* streaming_chat(q, h, sid) up to its first suspension: returns at once on an
\* invalid session id, else saves the user message and starts the streamed run
StartTurn(t, q, h, sid) ==
    /\ turn_pc[t] = "idle"
    /\ question' = [question EXCEPT ![t] = q]
    /\ history' = [history EXCEPT ![t] = h]
    /\ session_id' = [session_id EXCEPT ![t] = sid]
    /\ IF InvalidSession(sid)
       THEN /\ turn_pc' = [turn_pc EXCEPT ![t] = "returned"]
            /\ UNCHANGED saved
       ELSE /\ turn_pc' = [turn_pc EXCEPT ![t] = "streaming"]
            /\ saved' = [saved EXCEPT ![sid.v] =
                            Append(@, [role |-> "user", content |-> q, turn |-> t])]
    /\ UNCHANGED <<stream_events, response_text, turn_error, turn_search, last_yield>>
    /\ UNCHANGED <<processVars, pipelineVars>>

Start(t) ==
    /\ turn_pc[t] = "idle"
    /\ \E q \in Questions, h \in Histories, sid \in SessionIds : StartTurn(t, q, h, sid)

\* during the run the filtering agent calls search_auroville_events(args), which
\* reads the shared retriever with its own keyword arguments
TurnSearch(t, args) ==
    /\ turn_pc[t] = "streaming"
    /\ ~turn_search[t].called
    /\ turn_search' = [turn_search EXCEPT ![t] =
          [called |-> TRUE, args |-> args,
           kwargs |-> SearchKwargs(KValue(args.specificity),
                         ChromaFilter(SimpleFilters(args.filter_day, args.filter_date,
                                                    args.filter_location, now_year)))]]
    /\ UNCHANGED <<turn_pc, question, history, session_id, stream_events, response_text,
                   turn_error, last_yield, saved>>
    /\ UNCHANGED <<processVars, pipelineVars>>

Search(t) ==
    /\ turn_pc[t] = "streaming"
    /\ \E args \in ChatToolArgs : TurnSearch(t, args)

\* a RawResponsesStreamEvent carrying a ResponseTextDeltaEvent: the text grows
\* and the updated history is yielded
TextDelta(t, d) ==
    /\ turn_pc[t] = "streaming"
    /\ Len(stream_events[t]) < MaxDeltas
    /\ stream_events' = [stream_events EXCEPT ![t] = Append(@, d)]
    /\ response_text' = [response_text EXCEPT ![t] = ResponseAfterDelta(t, d)]
    /\ last_yield' = [last_yield EXCEPT ![t] = <<UpdatedHistory(t, ResponseAfterDelta(t, d))>>]
    /\ UNCHANGED <<turn_pc, question, history, session_id, turn_error, turn_search, saved>>
    /\ UNCHANGED <<processVars, pipelineVars>>

Delta(t) ==
    /\ turn_pc[t] = "streaming"
    /\ \E d \in Deltas : TextDelta(t, d)

\* the locals of the run (response_text, the events read, the retrieval) are
\* dead once the loop over the stream is left
RunLocalsDropped(t) ==
    /\ stream_events' = [stream_events EXCEPT ![t] = <<>>]
    /\ response_text' = [response_text EXCEPT ![t] = <<>>]
    /\ turn_search' = [turn_search EXCEPT ![t] = NoSearch]

\* the stream ends: the text is saved, or, with no text, the fallback apology
\* is yielded (and saved once the caller resumes the generator)
StreamEnd(t) ==
    /\ turn_pc[t] = "streaming"
    /\ IF response_text[t] # <<>>
       THEN /\ saved' = SaveMessage(t, "assistant", response_text[t])
            /\ turn_pc' = [turn_pc EXCEPT ![t] = "done"]
            /\ UNCHANGED last_yield
       ELSE /\ last_yield' = [last_yield EXCEPT ![t] = <<UpdatedHistory(t, FallbackMessage)>>]
            /\ turn_pc' = [turn_pc EXCEPT ![t] = "fallback_yielded"]
            /\ UNCHANGED saved
    /\ RunLocalsDropped(t)
    /\ UNCHANGED <<question, history, session_id, turn_error>>
    /\ UNCHANGED <<processVars, pipelineVars>>

\* the run raises an Exception e: the handler yields the error message
RunFails(t, e) ==
    /\ turn_pc[t] = "streaming"
    /\ turn_error' = [turn_error EXCEPT ![t] = Some(e)]
    /\ last_yield' = [last_yield EXCEPT ![t] = <<UpdatedHistory(t, ErrorMessage(e))>>]
    /\ turn_pc' = [turn_pc EXCEPT ![t] = "error_yielded"]
    /\ RunLocalsDropped(t)
    /\ UNCHANGED <<question, history, session_id, saved>>
    /\ UNCHANGED <<processVars, pipelineVars>>

Fail(t) ==
    /\ turn_pc[t] = "streaming"
    /\ \E e \in Failures : RunFails(t, e)

\* the generator ending after its last yield with no save_message call
ResumeWithoutSave(t) ==
    /\ turn_pc[t] \in {"fallback_yielded", "error_yielded"}
    /\ turn_pc' = [turn_pc EXCEPT ![t] = "done"]
    /\ UNCHANGED <<question, history, session_id, stream_events, response_text,
                   turn_error, turn_search, last_yield, saved>>
    /\ UNCHANGED <<processVars, pipelineVars>>
\* the caller resumes the generator after the fallback or the error message
\* was yielded: that message is saved and the generator ends
ResumeAndSave(t) ==
    /\ turn_pc[t] \in {"fallback_yielded", "error_yielded"}
    /\ saved' = SaveMessage(t, "assistant",
                    IF turn_pc[t] = "error_yielded" THEN ErrorMessage(turn_error[t].v)
                    ELSE FallbackMessage)
    /\ turn_pc' = [turn_pc EXCEPT ![t] = "done"]
    /\ UNCHANGED <<question, history, session_id, stream_events, response_text,
                   turn_error, turn_search, last_yield>>
    /\ UNCHANGED <<processVars, pipelineVars>>

\* the calling layer cancels the turn while the generator is suspended
\* (CancelledError at the await, GeneratorExit at a yield)
Cancel(t) ==
    /\ turn_pc[t] \in {"streaming", "fallback_yielded", "error_yielded"}
    /\ saved' = SavedAfterCancel(t)
    /\ turn_pc' = [turn_pc EXCEPT ![t] = "cancelled"]
    /\ RunLocalsDropped(t)
    /\ UNCHANGED <<question, history, session_id, turn_error, last_yield>>
    /\ UNCHANGED <<processVars, pipelineVars>>

\* the tool calls the agent pipeline is explored with
AgentToolArgs ==
    { a \in ToolArgs :
        /\ a.specificity \in {<<"B", "r", "o", "a", "d">>, <<>>}
        /\ a.filter_day = None
        /\ a.filter_location = None
        /\ a.filter_date \in {None, Some(<<"November", " ", "5", ",", " ", "2025">>),
                              Some(<<"tomorrow">>)} }

vars == <<processVars, pipelineVars, chatVars>>

Init == InitProcess /\ InitPipeline /\ InitChat

\* one call of the tool search_auroville_events
Next ==
    \/ SearchFrom(ToolArgs)
    \/ Retrieve
    \/ RetrieverRaises

Spec == Init /\ [][Next]_vars

\* one run of auroville_agent: both sub-agents are tools of the orchestrating model
\* (auroville_agent.py tools = [...]), and the tool is the filtering agent's
NextAgent ==
    \/ SelectorAgentRun
    \/ SearchFrom(AgentToolArgs)
    \/ Retrieve
    \/ RetrieverRaises
    \/ FilteringAgentOutput

AgentSpec == Init /\ [][NextAgent]_vars

\* chat turns running concurrently, each its own streaming_chat generator
NextChat ==
    \E t \in Turns :
       \/ Start(t)
       \/ Search(t)
       \/ Delta(t)
       \/ StreamEnd(t)
       \/ Fail(t)
       \/ ResumeAndSave(t)
       \/ Cancel(t)

\* the chat turns are explored within one calendar year
InitChatSpec == Init /\ now_year = 2025

ChatSpec == InitChatSpec /\ [][NextChat]_vars

\* ------------------------------------------- properties of the tool call
CallMade == tool_pc \in {"invoked", "returned", "raised"}

FilterPassed == "filter" \in DOMAIN search_kwargs

\* the equality tests of the filter handed to the retriever, in order
PassedConditions ==
    IF ~FilterPassed THEN <<>>
    ELSE IF DOMAIN search_kwargs["filter"] \subseteq {"$or", "$and"}
         THEN search_kwargs["filter"][CHOOSE op \in DOMAIN search_kwargs["filter"] : TRUE]
         ELSE <<search_kwargs["filter"]>>

\* the conditions of the passed filter that test `key`
ConditionsOn(key) ==
    { i \in 1..Len(PassedConditions) : key \in DOMAIN PassedConditions[i] }

IsEquality(c, key, value) == c = (key :> ("$eq" :> value))

\* the number of non-empty fields among filter_day, filter_date, filter_location
SuppliedCount ==
    Cardinality({ f \in {"filter_day", "filter_date", "filter_location"} :
                    Truthy(tool_args[f]) })

AssembledConditions ==
    SimpleFilters(tool_args.filter_day, tool_args.filter_date,
                  tool_args.filter_location, now_year)

\* C1: the filter handed to the retriever follows the number of assembled
\* conditions: none => no filter argument at all; one => that single
\* {key: {"$eq": value}}; two or more => one "$or" over all of them, in order;
\* an "$and" is never produced.
C1_FilterShape ==
    CallMade =>
      LET sf == AssembledConditions
          n == Len(sf)
      IN /\ n = 0 => ~FilterPassed
         /\ n = 1 => /\ FilterPassed
                     /\ search_kwargs["filter"] = (sf[1][1] :> ("$eq" :> sf[1][2]))
         /\ n >= 2 => /\ FilterPassed
                      /\ DOMAIN search_kwargs["filter"] = {"$or"}
                      /\ search_kwargs["filter"]["$or"] =
                            [i \in 1..n |-> (sf[i][1] :> ("$eq" :> sf[i][2]))]
         /\ FilterPassed => "$and" \notin DOMAIN search_kwargs["filter"]

C1_Witness ==
    /\ tool_pc = "invoked"
    /\ Len(AssembledConditions) = 3
    /\ FilterPassed
    /\ "$or" \in DOMAIN search_kwargs["filter"]

\* C2 as claimed, counting supplied fields: none => no filter, exactly one =>
\* a single equality test, two or more => an OR of equalities.
C2_BySuppliedFields ==
    CallMade =>
      /\ SuppliedCount = 0 => ~FilterPassed
      /\ SuppliedCount = 1 =>
            /\ FilterPassed
            /\ DOMAIN search_kwargs["filter"] \cap {"$or", "$and"} = {}
            /\ Len(PassedConditions) = 1
      /\ SuppliedCount >= 2 =>
            /\ FilterPassed
            /\ DOMAIN search_kwargs["filter"] = {"$or"}

\* filter_date is the only supplied field and a weekday can be derived from it
OnlyDerivableDate ==
    /\ SuppliedCount = 1
    /\ Truthy(tool_args.filter_date)
    /\ \/ Strptime(tool_args.filter_date.v).ok
       \/ Strptime(tool_args.filter_date.v \o <<",", " ", ToString(now_year)>>).ok

\* C2 amended: none supplied => no filter; exactly one supplied => a single
\* equality test on that field, except a filter_date from which a weekday is
\* derived, which gives an OR of the date test and the derived day test; two or
\* more supplied => an OR of equalities; never an AND.
C2_BySuppliedFieldsAmended ==
    CallMade =>
      /\ SuppliedCount = 0 => ~FilterPassed
      /\ (SuppliedCount = 1 /\ ~OnlyDerivableDate) =>
            /\ FilterPassed
            /\ \E f \in {"day", "date", "location"} :
                  /\ Truthy(tool_args["filter_" \o f])
                  /\ search_kwargs["filter"] = (f :> ("$eq" :> tool_args["filter_" \o f].v))
      /\ OnlyDerivableDate =>
            /\ FilterPassed
            /\ DOMAIN search_kwargs["filter"] = {"$or"}
            /\ Len(PassedConditions) = 2
            /\ IsEquality(PassedConditions[1], "date", tool_args.filter_date.v)
            /\ DOMAIN PassedConditions[2] = {"day"}
            /\ DOMAIN PassedConditions[2]["day"] = {"$eq"}
      /\ SuppliedCount >= 2 =>
            /\ FilterPassed
            /\ DOMAIN search_kwargs["filter"] = {"$or"}
            /\ Len(PassedConditions) \in 2..3
            /\ \A i \in 1..Len(PassedConditions) :
                  \E f \in {"day", "date", "location"} :
                     /\ DOMAIN PassedConditions[i] = {f}
                     /\ DOMAIN PassedConditions[i][f] = {"$eq"}
      /\ FilterPassed => "$and" \notin DOMAIN search_kwargs["filter"]

C2_Witness ==
    /\ tool_pc = "invoked"
    /\ OnlyDerivableDate
    /\ Len(PassedConditions) = 2

\* the two parses of filter_date the code tries, in order
FirstParse == Strptime(tool_args.filter_date.v)
SecondParse == Strptime(tool_args.filter_date.v \o <<",", " ", ToString(now_year)>>)

WeekdayNameOf(p) == <<DayName(Weekday(p.year, p.month, p.day))>>

\* C3: with filter_date present, the weekday comes from the "Month DD, YYYY"
\* parse, else from the parse with the current year appended; when both fail
\* no day condition is derived.  In every case the retriever is invoked, with
\* the date equality test on the unmodified input string.
C3_DateDerivation ==
    (CallMade /\ Truthy(tool_args.filter_date)) =>
      /\ "k" \in DOMAIN search_kwargs
      /\ \E i \in ConditionsOn("date") :
            IsEquality(PassedConditions[i], "date", tool_args.filter_date.v)
      /\ Cardinality(ConditionsOn("date")) = 1
      /\ ~Truthy(tool_args.filter_day) =>
            /\ FirstParse.ok =>
                  \E i \in ConditionsOn("day") :
                     IsEquality(PassedConditions[i], "day", WeekdayNameOf(FirstParse))
            /\ (~FirstParse.ok /\ SecondParse.ok) =>
                  \E i \in ConditionsOn("day") :
                     IsEquality(PassedConditions[i], "day", WeekdayNameOf(SecondParse))
            /\ (~FirstParse.ok /\ ~SecondParse.ok) => ConditionsOn("day") = {}

\* both parses failed and the search went on with the date test alone
C3_Witness ==
    /\ tool_pc = "returned"
    /\ Truthy(tool_args.filter_date)
    /\ ~Truthy(tool_args.filter_day)
    /\ ~FirstParse.ok /\ ~SecondParse.ok
    /\ FilterPassed
    /\ search_kwargs["filter"] = ("date" :> ("$eq" :> tool_args.filter_date.v))

\* the day of the week by Zeller's congruence (0 = Saturday), the Gregorian
\* calendar's weekday independently of date.toordinal()
ZellerDay(y, m, d) ==
    LET mm == IF m < 3 THEN m + 12 ELSE m
        yy == IF m < 3 THEN y - 1 ELSE y
        K == yy % 100
        J == yy \div 100
    IN (d + ((13 * (mm + 1)) \div 5) + K + (K \div 4) + (J \div 4) + 5 * J) % 7

GregorianDayName(y, m, d) ==
    <<"Saturday", "Sunday", "Monday", "Tuesday", "Wednesday", "Thursday",
      "Friday">>[ZellerDay(y, m, d) + 1]

\* C4: a filter_date that parses as "Month DD, YYYY", with no filter_day and no
\* filter_location, gives an OR over exactly two equality tests: date equals
\* the supplied string, day equals the Gregorian weekday name of that date;
\* "November 5, 2025" gives "Wednesday".
C4_DateOnlyFilter ==
    (/\ CallMade
     /\ Truthy(tool_args.filter_date)
     /\ FirstParse.ok
     /\ ~Truthy(tool_args.filter_day)
     /\ ~Truthy(tool_args.filter_location)) =>
      /\ FilterPassed
      /\ search_kwargs["filter"] =
            ("$or" :> << ("date" :> ("$eq" :> tool_args.filter_date.v)),
                         ("day" :> ("$eq" :>
                            <<GregorianDayName(FirstParse.year, FirstParse.month,
                                               FirstParse.day)>>)) >>)
      /\ tool_args.filter_date.v = <<"November", " ", "5", ",", " ", "2025">> =>
            search_kwargs["filter"]["$or"][2] = ("day" :> ("$eq" :> <<"Wednesday">>))

C4_Witness ==
    /\ tool_pc = "invoked"
    /\ tool_args.filter_date = Some(<<"November", " ", "5", ",", " ", "2025">>)
    /\ tool_args.filter_day = None
    /\ tool_args.filter_location = None
    /\ search_kwargs["filter"]["$or"][2] = ("day" :> ("$eq" :> <<"Wednesday">>))

\* `specificity` equals "broad" ignoring letter case
IsBroadIgnoringCase(s) ==
    /\ Len(s) = 5
    /\ s[1] \in {"b", "B"} /\ s[2] \in {"r", "R"} /\ s[3] \in {"o", "O"}
    /\ s[4] \in {"a", "A"} /\ s[5] \in {"d", "D"}

\* C5: k is a positive integer, the Broad depth exactly when specificity is
\* "broad" ignoring case and the strictly smaller Specific depth otherwise.
C5_RetrievalDepth ==
    CallMade =>
      /\ search_kwargs["k"] \in Nat \ {0}
      /\ K_BROAD > K_SPECIFIC
      /\ IsBroadIgnoringCase(tool_args.specificity) <=> search_kwargs["k"] = K_BROAD
      /\ ~IsBroadIgnoringCase(tool_args.specificity) <=> search_kwargs["k"] = K_SPECIFIC

C5_Witness ==
    /\ tool_pc = "invoked"
    /\ tool_args.specificity = <<"B", "R", "O", "A", "D">>
    /\ search_kwargs["k"] = 100

\* C6: when the retriever returns zero documents the tool returns the fixed
\* no-results message: the call returns (it does not raise), and what it
\* returns is neither the empty string nor the document listing.
C6_NoResults ==
    (tool_pc = "returned" /\ docs = <<>>) =>
      /\ tool_result =
           <<"No relevant information found about Auroville events based on your query and filters.">>
      /\ tool_result # <<>>
      /\ Head(tool_result) # "Here is relevant information about Auroville events:\n\n"

C6_Witness ==
    /\ tool_pc = "returned"
    /\ docs = <<>>
    /\ FilterPassed
    /\ tool_result = NoResultsMessage

\* ---------------------------------------- properties of the chat turn
Failed(t) == ~turn_error[t].isNone

\* the assistant content of the last history yielded to the caller of turn t
LastAssistantContent(t) ==
    LET h == last_yield[t][1] IN h[Len(h)].content

\* the save_message calls turn t made with role "assistant"
AssistantSaves(t) ==
    IF InvalidSession(session_id[t]) THEN {}
    ELSE { i \in 1..Len(saved[session_id[t].v]) :
             /\ saved[session_id[t].v][i].turn = t
             /\ saved[session_id[t].v][i].role = "assistant" }

\* C7 as claimed: a failure of the run is answered, not propagated, with one
\* generic apology: the same text whatever failed.
C7_SingleGenericApology ==
    \A t \in Turns, u \in Turns :
       (Failed(t) /\ Failed(u)) =>
          /\ turn_pc[t] \in {"error_yielded", "done", "cancelled"}
          /\ last_yield[t] # <<>> /\ last_yield[u] # <<>>
          /\ LastAssistantContent(t) = LastAssistantContent(u)

\* C7 amended: an Exception e raised by the run is caught and not re-raised;
\* the last history yielded ends with "I encountered an error: <str(e)>. Please
\* try again.", a text that names the failure, and that text is what is saved.
\* It is not the only error path the user sees: a run that ends with no text
\* yields the fixed "I apologize ..." message.
C7_ErrorMessageNamesFailure ==
    \A t \in Turns :
       /\ Failed(t) =>
            /\ turn_pc[t] \in {"error_yielded", "done", "cancelled"}
            /\ last_yield[t] =
                 << history[t] \o
                    << Message("user", question[t]),
                       Message("assistant",
                               <<"I encountered an error: ">> \o turn_error[t].v
                                  \o <<". Please try again.">>) >> >>
            /\ turn_pc[t] = "done" =>
                  \E i \in AssistantSaves(t) :
                     saved[session_id[t].v][i].content = LastAssistantContent(t)
       /\ turn_pc[t] = "fallback_yielded" =>
            /\ ~Failed(t)
            /\ LastAssistantContent(t) =
                 <<"I apologize, but I couldn't generate a proper response. Please try again.">>

C7_Witness ==
    \E t \in Turns :
       /\ Failed(t)
       /\ turn_pc[t] = "done"
       /\ LastAssistantContent(t) =
            <<"I encountered an error: ", "Invalid", " ", "JSON", ". Please try again.">>

\* C8 as claimed: retrieval starts only after the selector agent has returned
\* the refined query and specificity, and the filtering agent's formatted
\* output comes only after the retrieval has returned.
C8_StageOrder ==
    /\ tool_pc # "idle" => selector_done
    /\ filtering_done => tool_pc = "returned"

\* ------------------------------------ properties of the selector agent
\* the words that refer to a date, a weekday or a relative date
TemporalTerms ==
    {"today", "tomorrow", "weekend", "tuesday", "wednesday", "friday", "nov", "dec"}

\* the utterance refers to time and names no event type and no venue
TemporalOnly(u) ==
    /\ \E i \in 1..Len(u) : u[i] \in TemporalTerms
    /\ \A i \in 1..Len(u) :
          u[i] \notin {"yoga", "music", "dance", "healing", "sound", "movie", "talk",
                       "workshop", "cripa"}

\* C11 as claimed: an utterance with only a temporal reference (a date, a
\* weekday, or a relative term such as "today", "tomorrow", "this weekend")
\* and no topical or venue keyword is classified Broad.
C11_TemporalOnlyBroad ==
    (selector_done /\ TemporalOnly(user_text)) => selector_specificity = <<"Broad">>

\* C9: after a turn is cancelled the session store holds no assistant message
\* of that turn, so no truncated prefix of the streamed text.
C9_NoPartialResponseSaved ==
    \A t \in Turns : turn_pc[t] = "cancelled" => AssistantSaves(t) = {}

\* cancelled after a first piece of the text had been streamed to the caller
C9_Witness ==
    \E t \in Turns :
       /\ turn_pc[t] = "cancelled"
       /\ last_yield[t] # <<>>
       /\ LastAssistantContent(t) = <<"Yoga">>
       /\ Len(saved[session_id[t].v]) >= 1

RECURSIVE Concat(_)
Concat(ss) == IF ss = <<>> THEN <<>> ELSE Head(ss) \o Concat(Tail(ss))

\* C10: under any interleaving of the turns, each turn's filter, retrieval
\* depth, response text and yielded history are functions of its own inputs
\* (its question, history, stream and tool arguments), and the index handle
\* stays as it was opened, once.
C10_TurnsIndependent ==
    /\ index_loads = 1
    /\ retriever = [k |-> 50]
    /\ \A v \in ValidSessions : \A i \in 1..Len(saved[v]) :
          session_id[saved[v][i].turn] = Some(v)
    /\ \A t \in Turns :
          /\ response_text[t] = Concat(stream_events[t])
          /\ (turn_pc[t] = "streaming" /\ stream_events[t] # <<>>) =>
                last_yield[t] =
                  << history[t] \o << Message("user", question[t]),
                                      Message("assistant", Concat(stream_events[t])) >> >>
          /\ last_yield[t] # <<>> =>
                /\ Len(last_yield[t][1]) = Len(history[t]) + 2
                /\ SubSeq(last_yield[t][1], 1, Len(history[t]) + 1) =
                      Append(history[t], Message("user", question[t]))
          /\ turn_search[t].called =>
                turn_search[t].kwargs =
                  SearchKwargs(KValue(turn_search[t].args.specificity),
                     ChromaFilter(SimpleFilters(turn_search[t].args.filter_day,
                                                turn_search[t].args.filter_date,
                                                turn_search[t].args.filter_location,
                                                now_year)))

\* two turns of different sessions, both mid-stream, with different questions,
\* different retrievals and different texts so far
C10_Witness ==
    /\ turn_pc[1] = "streaming" /\ turn_pc[2] = "streaming"
    /\ session_id[1] # session_id[2]
    /\ question[1] # question[2]
    /\ turn_search[1].called /\ turn_search[2].called
    /\ turn_search[1].kwargs["k"] # turn_search[2].kwargs["k"]
    /\ response_text[1] = <<"Yoga">>
    /\ response_text[2] = <<"Yoga", "Yoga">>

\* what turn t appends to its session's messages in a step
SavesInStep(t, content) ==
    saved' = [saved EXCEPT ![session_id[t].v] =
                 Append(@, [role |-> "assistant", content |-> content, turn |-> t])]

\* a completed turn has saved exactly one assistant message, the content of
\* the last history it yielded
OneAssistantMessageSaved(t) ==
    turn_pc[t] = "done" =>
       /\ ~InvalidSession(session_id[t])
       /\ last_yield[t] # <<>>
       /\ Cardinality(AssistantSaves(t)) = 1
       /\ \A i \in AssistantSaves(t) :
             saved[session_id[t].v][i].content = LastAssistantContent(t)
       /\ Failed(t) =>
             LastAssistantContent(t) =
                <<"I encountered an error: ">> \o turn_error[t].v
                   \o <<". Please try again.">>

\* the three ways a turn goes from streaming to its saved message
SavedOnEveryPath(t) ==
    /\ (turn_pc[t] = "streaming" /\ turn_pc'[t] = "done") =>
          /\ Concat(stream_events[t]) # <<>>
          /\ last_yield[t] # <<>>
          /\ LastAssistantContent(t) = Concat(stream_events[t])
          /\ last_yield'[t] = last_yield[t]
          /\ SavesInStep(t, Concat(stream_events[t]))
    /\ (turn_pc[t] = "streaming" /\ turn_pc'[t] = "fallback_yielded") =>
          /\ Concat(stream_events[t]) = <<>>
          /\ LastAssistantContent(t)' =
                <<"I apologize, but I couldn't generate a proper response. Please try again.">>
          /\ saved' = saved
    /\ (turn_pc[t] = "streaming" /\ turn_pc'[t] = "error_yielded") =>
          /\ LastAssistantContent(t)' =
                <<"I encountered an error: ">> \o turn_error'[t].v
                   \o <<". Please try again.">>
          /\ saved' = saved
    /\ (turn_pc[t] \in {"fallback_yielded", "error_yielded"} /\ turn_pc'[t] = "done") =>
          /\ last_yield'[t] = last_yield[t]
          /\ SavesInStep(t, LastAssistantContent(t))

\* C12: with a valid session id, a turn that runs to completion has saved
\* exactly one assistant message, and its text is the assistant content of the
\* last history yielded to the caller: the concatenation of all streamed deltas,
\* the fixed fallback apology when no text was streamed, or the error message
\* when the run raised (also after deltas had been yielded).
C12_SavedEqualsLastYield ==
    /\ [](\A t \in Turns : OneAssistantMessageSaved(t))
    /\ [][\A t \in Turns : SavedOnEveryPath(t)]_vars

\* a turn that streamed two deltas and completed with their concatenation saved
C12_Witness ==
    \E t \in Turns :
       /\ turn_pc[t] = "done"
       /\ ~Failed(t)
       /\ LastAssistantContent(t) = <<"Yoga", "Yoga">>
       /\ \E i \in AssistantSaves(t) :
             saved[session_id[t].v][i].content = <<"Yoga", "Yoga">>

\* the weekday the code derives from filter_date, if any
DerivedFromDate ==
    IF FirstParse.ok THEN Some(WeekdayNameOf(FirstParse))
    ELSE IF SecondParse.ok THEN Some(WeekdayNameOf(SecondParse))
    ELSE None

\* C13: with filter_date and filter_day both supplied, the emitted filter has
\* exactly one day test and it is on the supplied filter_day, whatever weekday
\* filter_date falls on; every emitted filter has at most one condition per
\* metadata key and at most three conditions.
C13_SuppliedDayWins ==
    CallMade =>
      /\ \A key \in {"date", "day", "location"} : Cardinality(ConditionsOn(key)) <= 1
      /\ Len(PassedConditions) <= 3
      /\ \A i \in 1..Len(PassedConditions) :
            DOMAIN PassedConditions[i] \subseteq {"date", "day", "location"}
      /\ (Truthy(tool_args.filter_date) /\ Truthy(tool_args.filter_day)) =>
            /\ FilterPassed
            /\ DOMAIN search_kwargs["filter"] = {"$or"}
            /\ IsEquality(PassedConditions[1], "date", tool_args.filter_date.v)
            /\ IsEquality(PassedConditions[2], "day", tool_args.filter_day.v)
            /\ ConditionsOn("day") = {2}

\* filter_date falls on a Wednesday, filter_day says Monday, a location is
\* given too: three conditions, the day test on Monday
C13_Witness ==
    /\ tool_pc = "invoked"
    /\ tool_args.filter_date = Some(<<"November", " ", "5", ",", " ", "2025">>)
    /\ DerivedFromDate = Some(<<"Wednesday">>)
    /\ tool_args.filter_day = Some(<<"Monday">>)
    /\ Truthy(tool_args.filter_location)
    /\ Len(PassedConditions) = 3
    /\ PassedConditions[2] = ("day" :> ("$eq" :> <<"Monday">>))

\* session_id is missing (None), empty, or the string "null"
NoSessionId(sid) == sid.isNone \/ sid.v = <<>> \/ sid.v = <<"null">>

\* turn t has made no save_message call, in any session
NothingSavedBy(t) ==
    \A v \in DOMAIN saved : \A i \in 1..Len(saved[v]) : saved[v][i].turn # t

\* a turn called without a session id has returned, and has saved nothing, run
\* nothing and yielded nothing
ReturnedUntouched(t) ==
    /\ (turn_pc[t] # "idle" /\ NoSessionId(session_id[t])) => turn_pc[t] = "returned"
    /\ turn_pc[t] = "returned" =>
          /\ NoSessionId(session_id[t])
          /\ NothingSavedBy(t)
          /\ last_yield[t] = <<>>
          /\ stream_events[t] = <<>> /\ response_text[t] = <<>>
          /\ ~turn_search[t].called
          /\ turn_error[t].isNone

\* the call that returns changes nothing but the turn's own arguments, and the
\* turn takes no step after it
ReturnsAtOnce(t) ==
    /\ (turn_pc[t] # "returned" /\ turn_pc'[t] = "returned") =>
          /\ turn_pc[t] = "idle"
          /\ saved' = saved
          /\ last_yield' = last_yield
          /\ stream_events' = stream_events /\ response_text' = response_text
          /\ turn_search' = turn_search /\ turn_error' = turn_error
    /\ turn_pc[t] = "returned" =>
          /\ turn_pc'[t] = "returned"
          /\ question'[t] = question[t] /\ history'[t] = history[t]
          /\ session_id'[t] = session_id[t]

\* C14: streaming_chat called with an empty, missing or "null" session id ends
\* at once with nothing changed: no user or assistant message is saved, the
\* agent is not run, and no history, not even an error message, is yielded.
C14_NoSessionNoEffect ==
    /\ [](\A t \in Turns : ReturnedUntouched(t))
    /\ [][\A t \in Turns : ReturnsAtOnce(t)]_vars

\* one turn was called with "null" and returned while the other turn, with a
\* session id, has saved its messages
C14_Witness ==
    \E t \in Turns, u \in Turns :
       /\ turn_pc[t] = "returned"
       /\ session_id[t] = Some(<<"null">>)
       /\ turn_pc[u] = "done"
       /\ Len(saved[session_id[u].v]) = 2
       /\ NothingSavedBy(t)

====
